---- MODULE Spec2Model ----
(***************************************************************************)
(* go-metrics-influx: the reporter that walks a go-metrics registry on     *)
(* every tick of a ticker, translates every instrument into one influx     *)
(* point and hands the points to the influx client.                        *)
(*                                                                         *)
(* src/influxmetrics.go holds two revisions of the reporter:               *)
(*   "v2"  lines 1-291    New / Run(ctx) / report(rapi, tstamp), written   *)
(*                        against influxdb-client-go/v2 (asynchronous      *)
(*                        WriteAPI with an error channel);                 *)
(*   "v1"  lines 293-547  NewReporter / Run() / report(c), written against *)
(*                        influxdb/client/v2 (synchronous batch write).    *)
(* The variable `version` says which revision a behaviour runs.            *)
(*                                                                         *)
(* Strings the code splits (instrument names) are sequences of one-        *)
(* character strings, so that strings.Split can be computed.               *)
(***************************************************************************)
EXTENDS Integers, Sequences, FiniteSets, TLC

VARIABLES
    version,      \* "v1" | "v2": the revision of Reporter
    url,          \* r.url: "ok" | "malformed"
    precision,    \* r.precision: "s" | "invalid"
    registry,     \* r.registry: instrument name -> [kind, nan]
    lastCounter,  \* r.lastCounter: instrument name -> last count seen
    ctxDone,      \* the context of Run is cancelled
    tickC,        \* the ticker's channel (capacity 1): <<>> or <<time>>
    ticks,        \* how many ticks the ticker has delivered to tickC; the
                  \* time, counted in intervals of the ticker
    pc,           \* where Run is: "new" | "select" | "closing" | "wait" |
                  \* "returned"
    rep,          \* the report Run is in: "idle" (none) | "walk"
    tstamp,       \* the time of the report in progress (v2 tstamp, v1 now)
    todo,         \* names registry.Each has still to visit in this report
    bp,           \* v1: the batch points of the report in progress
    sinkBuf,      \* v2: points handed to WritePoint and not yet written
    sinkOpen,     \* the influx client exists and is not closed
    errCh,        \* v2 rapi.Errors(): "nil" | "empty" | "err" | "closed"
    drainPc,      \* v2 error-drain goroutine: "none" | "ranging" | "done"
    logs,         \* what r.log has been given: a set of <<message, name>>
    reports,      \* history: how many reports have started
    produced,     \* history: name -> points made of it in the current report
    stamps,       \* history: the timestamps of the current report's points
    tickWrites,   \* history: writes to influx since the current report began
    failTick,     \* history: the report of the last failed write (0: none)
    closes,       \* history: how many times client.Close() was called
    observed,     \* history: name -> the last Count() read of that counter
    sums,         \* history: name -> [mono: the counter's readings so far
                  \* were non-negative and non-decreasing; sum: the sum of
                  \* the diffs of its points while they were (0 afterwards)]
    pName,        \* parsing: the instrument name given
    pTags,        \* parsing: the static tags (r.tags) given
    pOut,         \* parsing: the parse result, or NoParse
    qNames,       \* tags: the names registry.Each has still to give the
                  \* callback
    qTags,        \* tags: r.tags, the reporter's static tag map
    qOut          \* tags: the name and the tags of every point made so far

confVars == <<version, url, precision, registry>>
runVars == <<lastCounter, ctxDone, tickC, ticks, pc, rep, tstamp, todo, bp,
             sinkBuf, sinkOpen, errCh, drainPc, logs>>
histVars == <<reports, produced, stamps, tickWrites, failTick, closes,
             observed, sums>>
parseVars == <<pName, pTags, pOut, qNames, qTags, qOut>>
vars == <<confVars, runVars, histVars, parseVars>>

(***************************************************************************)
(* Bounds of the model.                                                    *)
(***************************************************************************)
MaxTicks == 2      \* ticks the ticker delivers
MaxReg == 2        \* instruments in the registry
MaxNameLen == 5    \* length of the enumerated instrument names
MaxSeq == 2        \* names registry.Each gives the callback in a sequence

(***************************************************************************)
(* Strings as sequences of characters.                                     *)
(***************************************************************************)
Comma == ","
Equals == "="

\* strings.Split(s, sep) for a one-character separator: n separators give
\* n+1 parts, the empty string gives one empty part.
RECURSIVE Split(_, _)
Split(s, sep) ==
    IF \A i \in 1..Len(s) : s[i] # sep
    THEN <<s>>
    ELSE LET i == CHOOSE j \in 1..Len(s) :
                      s[j] = sep /\ \A k \in 1..(j - 1) : s[k] # sep
         IN  <<SubSeq(s, 1, i - 1)>> \o Split(SubSeq(s, i + 1, Len(s)), sep)

\* tags[key] = val on a Go map.
MapPut(m, key, val) ==
    [k \in (DOMAIN m) \cup {key} |-> IF k = key THEN val ELSE m[k]]

EmptyMap == [k \in {} |-> <<>>]

\* tags := make(map[string]string); for key, val := range r.tags {...}
CopyTags(static) == [k \in DOMAIN static |-> static[k]]

\* The loop over parts[1:], from index i (1-based: parts[i] is Go's
\* parts[i-1]), carrying measurement and tags.
RECURSIVE ParseParts(_, _, _, _)
ParseParts(parts, i, measurement, tags) ==
    IF i > Len(parts)
    THEN [measurement |-> measurement, tags |-> tags]
    ELSE LET kv == Split(parts[i], Equals)
         IN  IF Len(kv) = 2
             THEN ParseParts(parts, i + 1, measurement,
                             MapPut(tags, kv[1], kv[2]))
             ELSE ParseParts(parts, i + 1,
                             measurement \o <<Comma>> \o parts[i], tags)

\* A plausible slip: a segment that is no key=value pair is dropped.
RECURSIVE ParsePartsDropping(_, _, _, _)
ParsePartsDropping(parts, i, measurement, tags) ==
    IF i > Len(parts)
    THEN [measurement |-> measurement, tags |-> tags]
    ELSE LET kv == Split(parts[i], Equals)
         IN  IF Len(kv) = 2
             THEN ParsePartsDropping(parts, i + 1, measurement,
                                     MapPut(tags, kv[1], kv[2]))
             ELSE ParsePartsDropping(parts, i + 1, measurement, tags)

ParseNameDropping(static, name) ==
    LET parts == Split(name, Comma)
    IN  IF Len(parts) > 1
        THEN ParsePartsDropping(parts, 2, parts[1], CopyTags(static))
        ELSE [measurement |-> name, tags |-> CopyTags(static)]

\* A plausible slip: the static tags are applied after the name's tags.
ParseNameStaticLast(static, name) ==
    LET parts == Split(name, Comma)
        p == IF Len(parts) > 1
             THEN ParseParts(parts, 2, parts[1], EmptyMap)
             ELSE [measurement |-> name, tags |-> EmptyMap]
    IN  [measurement |-> p.measurement,
         tags |-> [k \in (DOMAIN p.tags) \cup (DOMAIN static) |->
                      IF k \in DOMAIN static THEN static[k] ELSE p.tags[k]]]

\* The measurement and the tags of the point of instrument `name`.
ParseName(static, name) ==
    LET parts == Split(name, Comma)
    IN  IF Len(parts) > 1
        THEN ParseParts(parts, 2, parts[1], CopyTags(static))
        ELSE [measurement |-> name, tags |-> CopyTags(static)]

(***************************************************************************)
(* Instruments and points.                                                 *)
(***************************************************************************)
\* The instruments an application may have registered: name, kind, and
\* whether a floating-point reading of it is NaN or infinite.
Instruments ==
    { [name |-> <<"c">>, kind |-> "Counter", nan |-> FALSE],
      [name |-> <<"c", ",", "a", "=", "b">>, kind |-> "Counter", nan |-> FALSE],
      [name |-> <<"f">>, kind |-> "GaugeFloat64", nan |-> TRUE],
      [name |-> <<"h", ",", "x">>, kind |-> "Histogram", nan |-> FALSE],
      [name |-> <<"u">>, kind |-> "Other", nan |-> FALSE] }

\* Instruments of the other handled types.
MoreInstruments ==
    { [name |-> <<"g">>, kind |-> "Gauge", nan |-> FALSE],
      [name |-> <<"m">>, kind |-> "Meter", nan |-> FALSE],
      [name |-> <<"t", ",", "a", "=", "b">>, kind |-> "Timer", nan |-> FALSE] }

AllInstruments == Instruments \cup MoreInstruments

\* What metric.Count() of a counter may return (Inc, Dec and Clear make every
\* order of these values possible).  The values stay far from the int64
\* range, where count - last does not wrap.
CounterVals == {-1, 1, 2}

\* r.tags of the reporter whose Run is modelled.
StaticTags == [k \in {<<"a">>} |-> <<"s">>]

HistogramFields == {"count", "max", "mean", "min", "stddev", "variance",
                    "p50", "p75", "p95", "p99", "p999", "p9999"}

\* A plausible slip: the timer's map is the histogram's, without the rates.
FieldNamesTimerPartial(kind) ==
    CASE kind = "Counter" -> {"count", "diff"}
      [] kind = "Gauge" -> {"value"}
      [] kind = "GaugeFloat64" -> {"value"}
      [] kind = "Histogram" -> HistogramFields
      [] kind = "Meter" -> {"count", "m1", "m5", "m15", "mean"}
      [] kind = "Timer" -> HistogramFields
      [] OTHER -> {}

\* The field names of the point of each case of the type switch.
FieldNames(kind) ==
    CASE kind = "Counter" -> {"count", "diff"}
      [] kind = "Gauge" -> {"value"}
      [] kind = "GaugeFloat64" -> {"value"}
      [] kind = "Histogram" -> HistogramFields
      [] kind = "Meter" -> {"count", "m1", "m5", "m15", "mean"}
      [] kind = "Timer" -> HistogramFields \cup {"m1", "m5", "m15", "meanrate"}
      [] OTHER -> {}

\* The switch's default case: an instrument of no handled type.
Unhandled(kind) ==
    kind \notin {"Counter", "Gauge", "GaugeFloat64", "Histogram", "Meter",
                 "Timer"}

\* r.lastCounter[name]: a missing key reads as 0.
LastCount(last, name) == IF name \in DOMAIN last THEN last[name] ELSE 0

\* A plausible slip: the stored count is not subtracted.
CounterDiffIsCount(v, count, last) == count

\* diff of the counter case: v2 replaces a negative difference by count,
\* v1 reports the difference as it is.
CounterDiff(v, count, last) ==
    LET diff == count - last
    IN  IF v = "v2" /\ diff < 0 THEN count ELSE diff

\* The fields of the point: a counter's count and diff; the readings of the
\* other kinds are not computed by the reporter and stand as 0.
Fields(v, kind, count, last) ==
    [f \in FieldNames(kind) |->
        IF kind = "Counter" /\ f = "count" THEN count
        ELSE IF kind = "Counter" /\ f = "diff" THEN CounterDiff(v, count, last)
        ELSE 0]

\* client.NewPoint of v1 returns an error for a NaN or infinite field;
\* write.NewPoint of v2 returns no error.
NewPointFails(v, inst) == v = "v1" /\ inst.nan

\* A plausible slip: the time is read again for every instrument.
PointTimeNow(t, now) == now

\* The time given to NewPoint: the report's one tstamp / now.
PointTime(t, now) == t

\* A plausible slip: the default case ends the walk.
AfterUnhandledStop(rest) == {}

\* What registry.Each still visits after the callback returned from the
\* default case.
AfterUnhandled(rest) == rest

\* A plausible slip: the error of NewPoint ends the walk.
AfterPointErrorStop(rest) == {}

\* What registry.Each still visits after the callback logged the error of
\* NewPoint and returned.
AfterPointError(rest) == rest

\* A plausible slip: the last count is kept under the measurement.
CounterKeyMeasurement(name, measurement) == measurement

\* The key of r.lastCounter the counter case reads and writes: the name the
\* instrument is registered under.
CounterKey(name, measurement) == name

\* The measurement and the tags the callback computes for each instrument
\* under r.tags: they depend on the name and on r.tags alone.
Parsed == [i \in AllInstruments |-> ParseName(StaticTags, i.name)]

\* One call of the callback of registry.Each, on instrument inst whose
\* counter (if it is one) reads count: what happens to the point
\* ("point" | "skip" | "error"), the point, and r.lastCounter afterwards.
Translate(v, inst, count, last, t, now) ==
    LET p == Parsed[inst]
        key == CounterKey(inst.name, p.measurement)
        seen == LastCount(last, key)
    IN  [what |-> IF Unhandled(inst.kind) THEN "skip"
                  ELSE IF NewPointFails(v, inst) THEN "error"
                  ELSE "point",
         point |-> [measurement |-> p.measurement,
                    tags |-> p.tags,
                    fields |-> Fields(v, inst.kind, count, seen),
                    time |-> PointTime(t, now)],
         last |-> IF inst.kind = "Counter"
                  THEN MapPut(last, key, count)
                  ELSE last]

(***************************************************************************)
(* The state after New / NewReporter.                                      *)
(***************************************************************************)
NoParse == [measurement |-> <<>>, tags |-> EmptyMap, done |-> FALSE]

\* The registries of at most MaxReg of the instruments.
Registries ==
    { [n \in {i.name : i \in S} |->
          CHOOSE i \in S : i.name = n] :
      S \in {T \in SUBSET Instruments : Cardinality(T) <= MaxReg} }

\* The registries of at most MaxReg instruments of every type.
KindRegistries ==
    { [n \in {i.name : i \in S} |->
          CHOOSE i \in S : i.name = n] :
      S \in {T \in SUBSET AllInstruments : Cardinality(T) <= MaxReg} }

\* The configurations: v2 has no failing constructor; v1 fails on a
\* malformed URL (NewHTTPClient) and on an invalid precision
\* (NewBatchPoints).
Configs ==
    { <<"v2", "ok", "s">>, <<"v1", "ok", "s">>, <<"v1", "malformed", "s">>,
      <<"v1", "ok", "invalid">> }

TagsIdle ==
    /\ qNames = <<>>
    /\ qTags = EmptyMap
    /\ qOut = <<>>

ParseIdle ==
    /\ pName = <<>>
    /\ pTags = EmptyMap
    /\ pOut = NoParse
    /\ TagsIdle

InitOver(regs) ==
    /\ \E c \in Configs :
          /\ version = c[1]
          /\ url = c[2]
          /\ precision = c[3]
    /\ registry \in regs
    /\ lastCounter = EmptyMap
    /\ ctxDone = FALSE
    /\ tickC = <<>>
    /\ ticks = 0
    /\ pc = "new"
    /\ rep = "idle"
    /\ tstamp = 0
    /\ todo = {}
    /\ bp = <<>>
    /\ sinkBuf = <<>>
    /\ sinkOpen = FALSE
    /\ errCh = "nil"
    /\ drainPc = "none"
    /\ logs = {}
    /\ reports = 0
    /\ produced = EmptyMap
    /\ stamps = {}
    /\ tickWrites = 0
    /\ failTick = 0
    /\ closes = 0
    /\ observed = EmptyMap
    /\ sums = EmptyMap
    /\ ParseIdle

Init == InitOver(Registries)

\* The same, over registries with instruments of every type.
InitKinds == InitOver(KindRegistries)

(***************************************************************************)
(* Run.                                                                    *)
(***************************************************************************)
\* A plausible slip: the constructor's error is ignored.
ConstructFailsIgnored(v, u) == FALSE

\* client.NewHTTPClient of v1 returns an error; NewClientWithOptions of v2
\* returns none.
ConstructFails(v, u) == v = "v1" /\ u = "malformed"

\* Run up to its loop: the client, (v2) the write API, its error channel
\* and the goroutine that drains it, the ticker.
RunStart ==
    /\ pc = "new"
    /\ IF ConstructFails(version, url)
       THEN /\ logs' = logs \cup {<<"creating new influx client", <<>>>>}
            /\ pc' = "returned"
            /\ UNCHANGED <<sinkOpen, errCh, drainPc>>
       ELSE /\ sinkOpen' = TRUE
            /\ errCh' = IF version = "v2" THEN "empty" ELSE "nil"
            /\ drainPc' = IF version = "v2" THEN "ranging" ELSE "none"
            /\ pc' = "select"
            /\ UNCHANGED logs
    /\ UNCHANGED <<confVars, lastCounter, ctxDone, tickC, ticks, rep, tstamp,
                   todo, bp, sinkBuf, histVars, parseVars>>

\* An interval passes and the ticker sends the time on its channel, which
\* holds one tick; a tick that finds the channel full is dropped.
TickFire ==
    /\ pc \notin {"new", "returned"}
    /\ ticks < MaxTicks
    /\ tickC = <<>>
    /\ ticks' = ticks + 1
    /\ tickC' = <<ticks'>>
    /\ UNCHANGED <<confVars, lastCounter, ctxDone, pc, rep, tstamp, todo, bp,
                   sinkBuf, sinkOpen, errCh, drainPc, logs, histVars, parseVars>>

\* The caller cancels the context.
Cancel ==
    /\ ~ctxDone
    /\ ctxDone' = TRUE
    /\ UNCHANGED <<confVars, lastCounter, tickC, ticks, pc, rep, tstamp, todo,
                   bp, sinkBuf, sinkOpen, errCh, drainPc, logs, histVars,
                   parseVars>>

\* A plausible slip: report is started in a goroutine of its own and the
\* loop goes back to select at once.
ReportReturnedAsync(r) == TRUE

\* r.report(...) is a plain call: the loop is back at select only when the
\* report has returned.
ReportReturned(r) == r = "idle"

\* select, case <-ctx.Done(): v1 returns; v2 goes on to client.Close().
\* Go's select takes any of the ready cases.
SelectDone ==
    /\ pc = "select"
    /\ ReportReturned(rep)
    /\ ctxDone
    /\ pc' = IF version = "v1" THEN "returned" ELSE "closing"
    /\ UNCHANGED <<confVars, lastCounter, ctxDone, tickC, ticks, rep, tstamp,
                   todo, bp, sinkBuf, sinkOpen, errCh, drainPc, logs, histVars,
                   parseVars>>

\* client.NewBatchPoints of v1 returns an error for an invalid precision.
BatchPointsFails(v, prec) == v = "v1" /\ prec = "invalid"

\* select, case <-tc.C: the report starts: (v1) the batch points and now,
\* (v2) tstamp from the ticker, and registry.Each begins.
SelectTick ==
    /\ pc = "select"
    /\ ReportReturned(rep)
    /\ tickC # <<>>
    /\ tickC' = <<>>
    /\ reports' = reports + 1
    /\ produced' = [n \in DOMAIN registry |-> 0]
    /\ stamps' = {}
    /\ tickWrites' = 0
    /\ IF BatchPointsFails(version, precision)
       THEN /\ logs' = logs \cup {<<"creating influx batch points", <<>>>>}
            /\ UNCHANGED <<rep, tstamp, todo, bp>>
       ELSE /\ rep' = "walk"
            /\ tstamp' = IF version = "v2" THEN tickC[1] ELSE ticks
            /\ todo' = DOMAIN registry
            /\ bp' = <<>>
            /\ UNCHANGED logs
    /\ UNCHANGED <<confVars, lastCounter, ctxDone, ticks, pc, sinkBuf,
                   sinkOpen, errCh, drainPc, failTick, closes, observed,
                   sums, parseVars>>

(***************************************************************************)
(* report.                                                                 *)
(***************************************************************************)
\* One call of the callback of registry.Each, on instrument n.  The
\* registry yields its entries in any order.
Each(n) ==
    /\ rep = "walk"
    /\ n \in todo
    /\ \E count \in IF registry[n].kind = "Counter" THEN CounterVals ELSE {0} :
          LET r == Translate(version, registry[n], count, lastCounter,
                             tstamp, ticks)
          IN  /\ lastCounter' = r.last
              /\ todo' = IF r.what = "skip"
                         THEN AfterUnhandled(todo \ {n})
                         ELSE IF r.what = "error"
                         THEN AfterPointError(todo \ {n})
                         ELSE todo \ {n}
              /\ bp' = IF r.what = "point" /\ version = "v1"
                       THEN Append(bp, r.point)
                       ELSE bp
              /\ sinkBuf' = IF r.what = "point" /\ version = "v2"
                            THEN Append(sinkBuf, r.point)
                            ELSE sinkBuf
              /\ logs' = IF r.what = "error"
                         THEN logs \cup {<<"creating influx data point", n>>}
                         ELSE logs
              /\ produced' = IF r.what = "point"
                             THEN [produced EXCEPT ![n] = @ + 1]
                             ELSE produced
              /\ stamps' = IF r.what = "point"
                           THEN stamps \cup {r.point.time}
                           ELSE stamps
              /\ observed' = IF registry[n].kind = "Counter"
                             THEN MapPut(observed, n, count)
                             ELSE observed
              /\ sums' =
                    IF registry[n].kind = "Counter" /\ r.what = "point"
                    THEN LET prev == IF n \in DOMAIN sums THEN sums[n]
                                     ELSE [mono |-> TRUE, sum |-> 0]
                             mono == /\ prev.mono
                                     /\ count >= 0
                                     /\ count >= LastCount(observed, n)
                         IN  MapPut(sums, n,
                                    [mono |-> mono,
                                     sum |-> IF mono
                                             THEN prev.sum
                                                  + r.point.fields["diff"]
                                             ELSE 0])
                    ELSE sums
    /\ UNCHANGED <<confVars, ctxDone, tickC, ticks, pc, rep, tstamp,
                   sinkOpen, errCh, drainPc, reports, tickWrites, failTick,
                   closes, parseVars>>

\* The history of one write of n points to influx.
Written(n, ok) ==
    /\ tickWrites' = tickWrites + 1
    /\ failTick' = IF ok THEN failTick ELSE reports

\* A plausible slip: a failed write forgets the counts of the report.
LastAfterWriteCleared(last, ok) == IF ok THEN last ELSE EmptyMap

\* r.lastCounter after a write: neither the write nor the handling of its
\* error touches it.
LastAfterWrite(last, ok) == last

\* A plausible slip: a failed write ends Run.
AfterWriteStop(ok) == IF ok THEN "select" ELSE "returned"

\* Where Run is after report's write: report returns to the loop whether
\* the write failed or not.
AfterWrite(ok) == "select"

\* v1, after registry.Each: nothing is written for an empty batch;
\* otherwise c.Write(bp), whose error is logged.
RunWrite ==
    /\ version = "v1"
    /\ rep = "walk"
    /\ todo = {}
    /\ IF Len(bp) = 0
       THEN UNCHANGED <<pc, logs, tickWrites, failTick, lastCounter>>
       ELSE \E ok \in BOOLEAN :
               /\ Written(Len(bp), ok)
               /\ lastCounter' = LastAfterWrite(lastCounter, ok)
               /\ logs' = IF ok THEN logs
                          ELSE logs \cup {<<"writing data points to influx", <<>>>>}
               /\ pc' = IF pc = "select" THEN AfterWrite(ok) ELSE pc
    /\ rep' = "idle"
    /\ bp' = <<>>
    /\ UNCHANGED <<confVars, ctxDone, tickC, ticks, tstamp, todo, sinkBuf,
                   sinkOpen, errCh, drainPc, reports, produced, stamps, closes,
                   observed, sums, parseVars>>

\* The write API writes its buffer as one batch; a failed write puts the
\* error on the error channel.  The channel is unbuffered: while an error
\* waits to be received the write API writes nothing more.
SinkWrite ==
    /\ errCh = "empty"
    /\ \E ok \in BOOLEAN :
          /\ Written(Len(sinkBuf), ok)
          /\ errCh' = IF ok THEN "empty" ELSE "err"
          /\ lastCounter' = LastAfterWrite(lastCounter, ok)
    /\ sinkBuf' = <<>>

\* v2, after registry.Each: rapi.Flush() returns when the buffer is written.
RunFlush ==
    /\ version = "v2"
    /\ rep = "walk"
    /\ todo = {}
    /\ IF sinkBuf = <<>>
       THEN UNCHANGED <<sinkBuf, errCh, tickWrites, failTick, lastCounter>>
       ELSE SinkWrite
    /\ rep' = "idle"
    /\ UNCHANGED <<confVars, ctxDone, tickC, ticks, pc, tstamp, todo, bp,
                   sinkOpen, drainPc, logs, reports, produced, stamps, closes,
                   observed, sums, parseVars>>

\* The write API of v2 flushes its buffer by itself (flush interval, batch
\* size) for as long as the client is open.
SinkFlushes(open, buf) == open /\ buf # <<>>

SinkAutoFlush ==
    /\ version = "v2"
    /\ pc # "new"
    /\ SinkFlushes(sinkOpen, sinkBuf)
    /\ SinkWrite
    /\ UNCHANGED <<confVars, ctxDone, tickC, ticks, pc, rep, tstamp, todo, bp,
                   sinkOpen, drainPc, logs, reports, produced, stamps, closes,
                   observed, sums, parseVars>>

\* The goroutine of Run: for err := range errCh { log }.
DrainRecv ==
    /\ drainPc = "ranging"
    /\ errCh = "err"
    /\ errCh' = "empty"
    /\ logs' = logs \cup {<<"writing metrics batch to influx database", <<>>>>}
    /\ UNCHANGED <<confVars, lastCounter, ctxDone, tickC, ticks, pc, rep,
                   tstamp, todo, bp, sinkBuf, sinkOpen, drainPc, histVars,
                   parseVars>>

\* The range loop ends when the channel is closed; defer wg.Done().
DrainExit ==
    /\ drainPc = "ranging"
    /\ errCh = "closed"
    /\ drainPc' = "done"
    /\ UNCHANGED <<confVars, lastCounter, ctxDone, tickC, ticks, pc, rep,
                   tstamp, todo, bp, sinkBuf, sinkOpen, errCh, logs, histVars,
                   parseVars>>

\* A plausible slip: the error channel is left open.
ClosedErrChLeftOpen(e) == e

\* The error channel once the write API is closed.
ClosedErrCh(e) == "closed"

\* client.Close(): the write API flushes what it holds, stops, and closes
\* its error channel; it stops only when its last error is received.
RunClose ==
    /\ pc = "closing"
    /\ errCh = "empty"
    /\ IF sinkBuf # <<>>
       THEN /\ SinkWrite
            /\ UNCHANGED <<pc, sinkOpen, closes>>
       ELSE /\ sinkOpen' = FALSE
            /\ errCh' = ClosedErrCh(errCh)
            /\ closes' = closes + 1
            /\ pc' = "wait"
            /\ UNCHANGED <<sinkBuf, tickWrites, failTick, lastCounter>>
    /\ UNCHANGED <<confVars, ctxDone, tickC, ticks, rep, tstamp, todo, bp,
                   drainPc, logs, reports, produced, stamps, observed,
                   sums, parseVars>>

\* A plausible slip: Run does not wait for the goroutine.
WaitGroupDoneSkipped(d) == TRUE

\* wg.Wait() returns when the goroutine has called wg.Done().
WaitGroupDone(d) == d = "done"

\* wg.Wait(); return.
RunWait ==
    /\ pc = "wait"
    /\ WaitGroupDone(drainPc)
    /\ pc' = "returned"
    /\ UNCHANGED <<confVars, lastCounter, ctxDone, tickC, ticks, rep, tstamp,
                   todo, bp, sinkBuf, sinkOpen, errCh, drainPc, logs, histVars,
                   parseVars>>

Next ==
    \/ RunStart
    \/ TickFire
    \/ Cancel
    \/ SelectDone
    \/ SelectTick
    \/ \E n \in DOMAIN registry : Each(n)
    \/ RunWrite
    \/ RunFlush
    \/ SinkAutoFlush
    \/ DrainRecv
    \/ DrainExit
    \/ RunClose
    \/ RunWait

Spec == Init /\ [][Next]_vars

\* Run over registries with instruments of every type.
SpecKinds == InitKinds /\ [][Next]_vars

(***************************************************************************)
(* The name and tag parsing on its own: a name and a static tag set are    *)
(* drawn, and the parsing of the callback is applied to them.              *)
(***************************************************************************)
Alphabet == {"a", "b", Comma, Equals}

\* "hit_counter,region=eu,customerID=15"
NameHitCounterTagged ==
    <<"h", "i", "t", "_", "c", "o", "u", "n", "t", "e", "r", ",",
      "r", "e", "g", "i", "o", "n", "=", "e", "u", ",",
      "c", "u", "s", "t", "o", "m", "e", "r", "I", "D", "=", "1", "5">>

\* "hit_counter,smth,a=b"
NameHitCounterSmth ==
    <<"h", "i", "t", "_", "c", "o", "u", "n", "t", "e", "r", ",",
      "s", "m", "t", "h", ",", "a", "=", "b">>

\* "c,a=b,x,a=x"
NameTwice == <<"c", ",", "a", "=", "b", ",", "x", ",", "a", "=", "x">>

ParseNames ==
    UNION {[1..n -> Alphabet] : n \in 0..MaxNameLen}
      \cup {NameHitCounterTagged, NameHitCounterSmth, NameTwice}

ParseStatics == {EmptyMap, StaticTags}

\* Run has not been called: the state of a reporter that only translates.
RunIdle ==
    /\ version = "v2"
    /\ url = "ok"
    /\ precision = "s"
    /\ registry = EmptyMap
    /\ lastCounter = EmptyMap
    /\ ctxDone = FALSE
    /\ tickC = <<>>
    /\ ticks = 0
    /\ pc = "new"
    /\ rep = "idle"
    /\ tstamp = 0
    /\ todo = {}
    /\ bp = <<>>
    /\ sinkBuf = <<>>
    /\ sinkOpen = FALSE
    /\ errCh = "nil"
    /\ drainPc = "none"
    /\ logs = {}
    /\ reports = 0
    /\ produced = EmptyMap
    /\ stamps = {}
    /\ tickWrites = 0
    /\ failTick = 0
    /\ closes = 0
    /\ observed = EmptyMap
    /\ sums = EmptyMap

InitParse ==
    /\ pName \in ParseNames
    /\ pTags \in ParseStatics
    /\ pOut = NoParse
    /\ TagsIdle
    /\ RunIdle

\* The callback's tags and measurement for instrument pName.
ParseApply ==
    /\ ~pOut.done
    /\ LET p == ParseName(pTags, pName)
       IN  pOut' = [measurement |-> p.measurement, tags |-> p.tags,
                    done |-> TRUE]
    /\ UNCHANGED <<confVars, runVars, histVars, pName, pTags, qNames, qTags,
                   qOut>>

NextParse == ParseApply

SpecParse == InitParse /\ [][NextParse]_vars

(***************************************************************************)
(* The tags of the points of a walk on their own: static tags and a        *)
(* sequence of names are drawn, and the callback's tag construction is     *)
(* applied to one name after the other, r.tags carried from call to call.  *)
(***************************************************************************)
\* "c,b=a"
NameOtherTag == <<"c", ",", "b", "=", "a">>

TagNames ==
    {i.name : i \in AllInstruments}
      \cup {NameTwice, NameHitCounterSmth, NameOtherTag}

InitTags ==
    /\ pTags \in ParseStatics
    /\ qTags = pTags
    /\ qNames \in UNION {[1..n -> TagNames] : n \in 0..MaxSeq}
    /\ qOut = <<>>
    /\ pName = <<>>
    /\ pOut = NoParse
    /\ RunIdle

\* A plausible slip: tags := r.tags, the callback writes the name's tags
\* into the reporter's own map.
StaticAfterShared(static, tags) == tags

\* r.tags after the callback has written the name's tags into `tags`:
\* tags is a map of its own (make, then a copy key by key), so r.tags is as
\* it was.
StaticAfter(static, tags) == static

\* One call of the callback: the tags of the point of the next name.
TagsApply ==
    /\ qNames # <<>>
    /\ LET name == Head(qNames)
           p == ParseName(qTags, name)
       IN  /\ qOut' = Append(qOut, [name |-> name, tags |-> p.tags])
           /\ qTags' = StaticAfter(qTags, p.tags)
    /\ qNames' = Tail(qNames)
    /\ UNCHANGED <<confVars, runVars, histVars, pName, pTags, pOut>>

NextTags == TagsApply

SpecTags == InitTags /\ [][NextTags]_vars

\* Run with the scheduling the Go runtime gives it: a goroutine that can
\* take a step takes one, and a select whose ctx.Done() case is ready again
\* and again takes it in the end.  Neither the caller (RunStart, Cancel) nor
\* the ticker is obliged to do anything.
LiveSpec ==
    /\ Spec
    /\ SF_vars(SelectDone)
    /\ \A i \in Instruments : WF_vars(Each(i.name))
    /\ WF_vars(RunWrite)
    /\ WF_vars(RunFlush)
    /\ WF_vars(RunClose)
    /\ WF_vars(RunWait)
    /\ WF_vars(DrainRecv)
    /\ WF_vars(DrainExit)

(***************************************************************************)
(* What the properties are stated with.                                    *)
(***************************************************************************)
\* The points the report in progress holds and has not yet written.
Pending == IF version = "v1" THEN bp ELSE sinkBuf

\* The positions of the commas of a name.
CommaAt(s) == {i \in 1..Len(s) : s[i] = Comma}

\* The segment a position lies in; a comma belongs to the segment it leads.
SegOf(s, i) == 1 + Cardinality({c \in CommaAt(s) : c <= i})

\* The k-th comma-delimited segment of a name, without its comma.
Seg(s, k) ==
    LET in == {i \in 1..Len(s) : SegOf(s, i) = k /\ s[i] # Comma}
    IN  [j \in 1..Cardinality(in) |->
            s[CHOOSE i \in in : Cardinality({x \in in : x < i}) = j - 1]]

NSegs(s) == 1 + Cardinality(CommaAt(s))

\* A segment with exactly one "=".
IsPair(g) == Cardinality({i \in 1..Len(g) : g[i] = Equals}) = 1
EqAt(g) == CHOOSE i \in 1..Len(g) : g[i] = Equals
PairKey(g) == SubSeq(g, 1, EqAt(g) - 1)
PairVal(g) == SubSeq(g, EqAt(g) + 1, Len(g))

\* The later segments of a name that are key=value pairs.
PairSegs(s) == {k \in 2..NSegs(s) : IsPair(Seg(s, k))}

\* The characters of a name, in order, that lie in the first segment or in
\* a later segment that is no pair (its leading comma included).
KeptChars(s) ==
    LET in == {i \in 1..Len(s) :
                  SegOf(s, i) = 1 \/ SegOf(s, i) \notin PairSegs(s)}
    IN  [j \in 1..Cardinality(in) |->
            s[CHOOSE i \in in : Cardinality({x \in in : x < i}) = j - 1]]

(***************************************************************************)
(* C1                                                                      *)
(***************************************************************************)
\* The step in which the callback translates counter n.
TranslatesCounter(n) ==
    /\ n \in DOMAIN registry
    /\ registry[n].kind = "Counter"
    /\ rep = "walk"
    /\ n \in todo
    /\ n \notin todo'
    /\ Len(Pending') = Len(Pending) + 1

\* C1: translating counter n makes a point whose count is the value now
\* stored for n and whose diff is count minus the value stored before (0 if
\* none), or count if that difference is negative.
C1_CounterPoint ==
    [][\A n \in DOMAIN registry :
          TranslatesCounter(n) =>
              LET pt == Pending'[Len(Pending')]
                  count == pt.fields["count"]
                  d == count - LastCount(lastCounter, n)
              IN  /\ lastCounter'[n] = count
                  /\ pt.fields["diff"] = IF d < 0 THEN count ELSE d]_vars

(***************************************************************************)
(* C2                                                                      *)
(***************************************************************************)
\* C2: the measurement is the first segment followed by every later segment
\* that has not exactly one "=", each with its leading comma; every later
\* segment with exactly one "=" is a tag (the last segment of a key gives
\* its value); a name without commas is its own measurement and adds no
\* tag; the two names of the README parse as the README says.
C2_Measurement ==
    pOut.done =>
        /\ pOut.measurement = KeptChars(pName)
        /\ \A k \in PairSegs(pName) :
              LET g == Seg(pName, k)
              IN  /\ PairKey(g) \in DOMAIN pOut.tags
                  /\ (\A l \in PairSegs(pName) :
                         l > k => PairKey(Seg(pName, l)) # PairKey(g))
                      => pOut.tags[PairKey(g)] = PairVal(g)
        /\ CommaAt(pName) = {} =>
              /\ pOut.measurement = pName
              /\ pOut.tags = pTags
        /\ pName = NameHitCounterTagged =>
              /\ pOut.measurement =
                    <<"h", "i", "t", "_", "c", "o", "u", "n", "t", "e", "r">>
              /\ DOMAIN pOut.tags =
                    (DOMAIN pTags) \cup
                    {<<"r", "e", "g", "i", "o", "n">>,
                     <<"c", "u", "s", "t", "o", "m", "e", "r", "I", "D">>}
              /\ pOut.tags[<<"r", "e", "g", "i", "o", "n">>] = <<"e", "u">>
              /\ pOut.tags[<<"c", "u", "s", "t", "o", "m", "e", "r", "I", "D">>]
                    = <<"1", "5">>
        /\ pName = NameHitCounterSmth =>
              /\ pOut.measurement =
                    <<"h", "i", "t", "_", "c", "o", "u", "n", "t", "e", "r",
                      ",", "s", "m", "t", "h">>
              /\ DOMAIN pOut.tags = (DOMAIN pTags) \cup {<<"a">>}
              /\ pOut.tags[<<"a">>] = <<"b">>

\* A name with a segment that stays in the measurement and one that is a
\* tag has been parsed.
C2_Witness ==
    /\ pOut.done
    /\ pName = NameHitCounterSmth
    /\ pOut.measurement # pName

(***************************************************************************)
(* C3                                                                      *)
(***************************************************************************)
\* C3: the tags of a point are the static tags and the name's tags; a key
\* of the name has the value of the last segment that gives it, whether or
\* not the static tags have the key; every other key has its static value.
C3_TagUnion ==
    pOut.done =>
        LET keys == {PairKey(Seg(pName, k)) : k \in PairSegs(pName)}
        IN  /\ DOMAIN pOut.tags = (DOMAIN pTags) \cup keys
            /\ \A key \in DOMAIN pOut.tags :
                  IF key \in keys
                  THEN LET last == CHOOSE k \in PairSegs(pName) :
                                      /\ PairKey(Seg(pName, k)) = key
                                      /\ \A l \in PairSegs(pName) :
                                            PairKey(Seg(pName, l)) = key
                                                => l <= k
                       IN  pOut.tags[key] = PairVal(Seg(pName, last))
                  ELSE pOut.tags[key] = pTags[key]

\* A name that gives key "a" twice, with static tags that have "a" too, has
\* been parsed: the last segment's value is the tag.
C3_Witness ==
    /\ pOut.done
    /\ pName = NameTwice
    /\ <<"a">> \in DOMAIN pTags
    /\ pTags[<<"a">>] # pOut.tags[<<"a">>]
    /\ pOut.tags[<<"a">>] = <<"x">>

(***************************************************************************)
(* C4                                                                      *)
(***************************************************************************)
\* C4: once a write has failed, Run stays in its loop until the context is
\* cancelled, a tick that is ready can still start the next report, and Run
\* returns only for a cancelled context or a failed constructor.
C4_WriteFailureNotFatal ==
    /\ (failTick > 0 /\ ~ctxDone) => pc = "select"
    /\ (failTick > 0 /\ pc = "select" /\ rep = "idle" /\ tickC # <<>>)
          => ENABLED SelectTick
    /\ pc = "returned" => (ctxDone \/ (version = "v1" /\ url = "malformed"))

\* After a failed write in an earlier report, a later report has walked the
\* registry and attempted a write of its own.
C4_Witness ==
    /\ failTick > 0
    /\ reports > failTick
    /\ tickWrites > 0
    /\ ~ctxDone

(***************************************************************************)
(* C5                                                                      *)
(***************************************************************************)
\* C5: when Run has returned, the goroutine it started to drain the error
\* channel is not running any more.
C5_DrainJoined == pc = "returned" => drainPc # "ranging"

\* Run has returned after cancellation and its drain goroutine has ended.
C5_Witness == pc = "returned" /\ ctxDone /\ drainPc = "done"

(***************************************************************************)
(* C6                                                                      *)
(***************************************************************************)
\* C6: before Run is called nothing has been written or collected, and
\* once Run has returned no point is collected and nothing is written.
C6_NoWriteOutsideRun ==
    /\ [](pc = "new" => (tickWrites = 0 /\ reports = 0 /\ Pending = <<>>))
    /\ [][pc = "returned" => UNCHANGED <<tickWrites, bp, sinkBuf>>]_vars

\* Run has returned after a report that wrote to influx.
C6_Witness == pc = "returned" /\ tickWrites > 0

(***************************************************************************)
(* C7                                                                      *)
(***************************************************************************)
\* C7: with the client constructed, Run returns only after the context is
\* cancelled; it leaves its loop only between reports; and once the context
\* is cancelled a started Run returns in the end.
C7_BlocksUntilCancelled ==
    /\ []((pc = "returned" /\ ~(version = "v1" /\ url = "malformed"))
             => ctxDone)
    /\ [](pc \in {"closing", "wait", "returned"} => rep = "idle")
    /\ ((ctxDone /\ pc # "new") ~> (pc = "returned"))

\* Run has made a report and then, its context cancelled, has closed the
\* client, joined the drain goroutine and returned.
C7_Witness ==
    /\ pc = "returned"
    /\ ctxDone
    /\ closes = 1
    /\ drainPc = "done"
    /\ reports > 0

(***************************************************************************)
(* C8                                                                      *)
(***************************************************************************)
\* C8: when the constructor of the client fails, Run logs the failure and
\* returns: no report starts, nothing is walked, r.lastCounter stays as it
\* was and nothing is written.
C8_ConstructionFailure ==
    (version = "v1" /\ url = "malformed" /\ pc # "new") =>
        /\ pc = "returned"
        /\ <<"creating new influx client", <<>>>> \in logs
        /\ reports = 0
        /\ rep = "idle"
        /\ lastCounter = EmptyMap
        /\ tickWrites = 0
        /\ Pending = <<>>
        /\ ~sinkOpen

\* Run was called with a URL the constructor rejects, and has returned.
C8_Witness ==
    /\ version = "v1"
    /\ url = "malformed"
    /\ pc = "returned"
    /\ registry # EmptyMap

(***************************************************************************)
(* C9                                                                      *)
(***************************************************************************)
\* C9: the points made in one report all carry the report's one time.
C9_OneTimestamp ==
    /\ Cardinality(stamps) <= 1
    /\ \A i \in 1..Len(Pending) : Pending[i].time = tstamp

\* A report has made two points, of two instruments, while the time moved
\* on.
C9_Witness ==
    /\ Cardinality({n \in DOMAIN produced : produced[n] > 0}) >= 2
    /\ Cardinality(stamps) = 1
    /\ ticks > tstamp

(***************************************************************************)
(* C10                                                                     *)
(***************************************************************************)
\* The registry.Each of a report over a registry with an instrument of no
\* handled type has ended.
WalkedPastUnhandled ==
    /\ rep = "walk"
    /\ todo = {}
    /\ \E u \in DOMAIN registry : registry[u].kind = "Other"

\* C10 as claimed: the instrument of no handled type gives no point and
\* every instrument of a handled type gives exactly one.
C10_Original ==
    WalkedPastUnhandled =>
        \A n \in DOMAIN registry :
            produced[n] = IF registry[n].kind = "Other" THEN 0 ELSE 1

\* C10: the instrument of no handled type gives no point, and every
\* instrument of a handled type gives exactly one, unless v1's NewPoint
\* fails for it, and then it gives none.
C10_UnhandledSkipped ==
    WalkedPastUnhandled =>
        \A n \in DOMAIN registry :
            produced[n] =
               IF registry[n].kind = "Other" THEN 0
               ELSE IF version = "v1" /\ registry[n].nan THEN 0
               ELSE 1

\* A report has walked a registry that holds an instrument of no handled
\* type and made the point of another instrument.
C10_Witness ==
    /\ WalkedPastUnhandled
    /\ \E n \in DOMAIN registry : produced[n] = 1

(***************************************************************************)
(* C11                                                                     *)
(***************************************************************************)
\* How many points the current report has made.
Made == Cardinality({n \in DOMAIN produced : produced[n] > 0})

\* A step that writes points to influx.
WriteStep == tickWrites' = tickWrites + 1

\* C11: a report that made no point has written nothing when it returns, a
\* report that made a point has written exactly once, and that write holds
\* every point of the report.
C11_SubmittedIffNonEmpty ==
    [][/\ (rep = "walk" /\ rep' = "idle")
              => tickWrites' = IF Made > 0 THEN 1 ELSE 0
       /\ WriteStep => (todo = {} /\ Len(Pending) = Made)]_vars

(***************************************************************************)
(* C12                                                                     *)
(***************************************************************************)
\* C12: no counter point has a negative diff.
C12_DiffNotNegative ==
    \A i \in 1..Len(Pending) :
        "diff" \in DOMAIN Pending[i].fields => Pending[i].fields["diff"] >= 0

(***************************************************************************)
(* C13                                                                     *)
(***************************************************************************)
\* C13: when Run has returned for a cancelled context, client.Close() has
\* been called exactly once; it is called when no report is in progress and
\* after it no report starts, and Run returns only after it.
C13_ClosedOnCancel ==
    /\ (pc = "returned" /\ ~(version = "v1" /\ url = "malformed"))
          => closes = 1
    /\ closes <= 1
    /\ closes = 1 => (rep = "idle" /\ pc \in {"wait", "returned"})

(***************************************************************************)
(* C14                                                                     *)
(***************************************************************************)
\* The step in which the callback makes the point of instrument n.
MakesPoint(n) ==
    /\ n \in DOMAIN registry
    /\ rep = "walk"
    /\ n \in todo
    /\ n \notin todo'
    /\ Len(Pending') = Len(Pending) + 1

C14_Histogram ==
    {"count", "max", "mean", "min", "stddev", "variance", "p50", "p75",
     "p95", "p99", "p999", "p9999"}

C14_Claimed ==
    [k \in {"Counter", "Gauge", "GaugeFloat64", "Histogram", "Meter", "Timer"}
       |-> CASE k = "Counter" -> {"count", "diff"}
             [] k \in {"Gauge", "GaugeFloat64"} -> {"value"}
             [] k = "Histogram" -> C14_Histogram
             [] k = "Meter" -> {"count", "m1", "m5", "m15", "mean"}
             [] k = "Timer" ->
                   C14_Histogram \cup {"m1", "m5", "m15", "meanrate"}]

\* C14: the point made of an instrument has exactly the field names of the
\* instrument's kind, whatever the instrument has recorded (the readings of
\* a histogram or timer in the model are those of one without values).
C14_FieldNames ==
    [][\A n \in DOMAIN registry :
          MakesPoint(n) =>
              /\ registry[n].kind \in DOMAIN C14_Claimed
              /\ DOMAIN Pending'[Len(Pending')].fields
                    = C14_Claimed[registry[n].kind]]_vars

\* A report has made the points of a timer and of a meter.
C14_Witness ==
    /\ rep = "walk"
    /\ todo = {}
    /\ \E n, m \in DOMAIN registry :
          /\ registry[n].kind = "Timer"
          /\ registry[m].kind = "Meter"
          /\ produced[n] = 1
          /\ produced[m] = 1
    /\ Len(Pending) = 2

(***************************************************************************)
(* C15                                                                     *)
(***************************************************************************)
\* C15: the select of Run, with a tick waiting and the context cancelled,
\* does not take the tick; no report starts once the context is cancelled.
C15_CancelFirst ==
    [][/\ (pc = "select" /\ rep = "idle" /\ ctxDone /\ tickC # <<>>)
              => (reports' = reports /\ tickC' = tickC)
       /\ ctxDone => reports' = reports]_vars

(***************************************************************************)
(* C16                                                                     *)
(***************************************************************************)
\* A step of the goroutine that drains the error channel.
DrainStep ==
    \/ drainPc' # drainPc
    \/ (drainPc = "ranging" /\ errCh = "err" /\ errCh' = "empty")

\* C16: a report starts only when the report before it has returned, with
\* its walk over and its points written; r.lastCounter changes only in a
\* step of the walk of the report in progress, never in a step of the drain
\* goroutine.
C16_SequentialReports ==
    [][/\ reports' # reports
              => (rep = "idle" /\ todo = {} /\ Pending = <<>>)
       /\ lastCounter' # lastCounter
              => (rep = "walk" /\ pc = "select" /\ todo' # todo /\ ~DrainStep)
       /\ DrainStep => UNCHANGED <<lastCounter, rep, todo, reports>>]_vars

\* The second report is walking the registry after the drain goroutine has
\* received the error of the first report's write.
C16_Witness ==
    /\ reports = 2
    /\ rep = "walk"
    /\ todo # {}
    /\ lastCounter # EmptyMap
    /\ drainPc = "ranging"
    /\ <<"writing metrics batch to influx database", <<>>>> \in logs

(***************************************************************************)
(* C17                                                                     *)
(***************************************************************************)
\* C17: nothing is written to influx while registry.Each of a report is
\* still visiting instruments, and the points of one write are all of the
\* report in progress.
C17_AtomicBatch ==
    [][WriteStep =>
          /\ todo = {}
          /\ \A i \in 1..Len(Pending) : Pending[i].time = tstamp]_vars

(***************************************************************************)
(* C18                                                                     *)
(***************************************************************************)
\* The instruments of the registry, other than n, that the type switch
\* handles and whose NewPoint does not fail.
OthersWithPoint(n) ==
    {m \in DOMAIN registry :
        /\ m # n
        /\ registry[m].kind # "Other"
        /\ ~registry[m].nan}

\* C18: in v1, for an instrument n whose NewPoint fails: once the walk has
\* visited n, n has no point and the failure is logged with n's name; at
\* the end of the walk every other instrument with a point has its one point
\* in the batch; and the report writes the batch, once, if it is not empty.
C18_PointErrorDropsOne ==
    version = "v1" =>
        \A n \in DOMAIN registry :
            registry[n].nan =>
                /\ (rep = "walk" /\ n \notin todo) =>
                      /\ produced[n] = 0
                      /\ <<"creating influx data point", n>> \in logs
                /\ (rep = "walk" /\ todo = {}) =>
                      /\ \A m \in OthersWithPoint(n) : produced[m] = 1
                      /\ Len(bp) = Cardinality(OthersWithPoint(n))
                /\ (rep = "idle" /\ reports > 0 /\ precision = "s") =>
                      /\ \A m \in OthersWithPoint(n) : produced[m] = 1
                      /\ tickWrites =
                            IF OthersWithPoint(n) # {} THEN 1 ELSE 0

\* A v1 report over an instrument whose NewPoint fails and a counter has
\* logged the failure, made the counter's point and written the batch.
C18_Witness ==
    /\ version = "v1"
    /\ rep = "idle"
    /\ tickWrites = 1
    /\ \E n, m \in DOMAIN registry :
          /\ registry[n].nan
          /\ <<"creating influx data point", n>> \in logs
          /\ produced[n] = 0
          /\ registry[m].kind = "Counter"
          /\ produced[m] = 1

(***************************************************************************)
(* C19                                                                     *)
(***************************************************************************)
\* The entry of r.lastCounter under key k differs between the two states
\* of a step.
EntryChanges(k) ==
    \/ (k \in DOMAIN lastCounter) # (k \in DOMAIN lastCounter')
    \/ (k \in DOMAIN lastCounter /\ k \in DOMAIN lastCounter'
           /\ lastCounter[k] # lastCounter'[k])

\* C19: the entry of r.lastCounter under a key changes only in the step in
\* which the callback visits a Counter registered under exactly that key;
\* visiting an instrument of another kind, or a counter of another name,
\* leaves the entry as it is; no entry is ever removed.
C19_LastCounterFrame ==
    [][/\ \A k \in (DOMAIN lastCounter) \cup (DOMAIN lastCounter') :
             EntryChanges(k) =>
                 /\ k \in DOMAIN registry
                 /\ registry[k].kind = "Counter"
                 /\ rep = "walk"
                 /\ k \in todo
                 /\ k \notin todo'
       /\ \A n \in DOMAIN registry :
             (rep = "walk" /\ n \in todo /\ n \notin todo'
                  /\ registry[n].kind # "Counter")
                 => lastCounter' = lastCounter
       /\ (DOMAIN lastCounter) \subseteq (DOMAIN lastCounter')]_vars

\* Two counters that share the measurement "c" have been visited and have
\* an entry each, under their full names, with different values.
C19_Witness ==
    /\ <<"c">> \in DOMAIN lastCounter
    /\ <<"c", ",", "a", "=", "b">> \in DOMAIN lastCounter
    /\ lastCounter[<<"c">>] # lastCounter[<<"c", ",", "a", "=", "b">>]
    /\ DOMAIN lastCounter = DOMAIN registry
    /\ reports = 2

(***************************************************************************)
(* C20                                                                     *)
(***************************************************************************)
\* C20: a write leaves r.lastCounter as it is; when the report whose write
\* failed has returned, r.lastCounter holds for every counter the count read
\* in that report; and the diff of the next report is taken from that count
\* (as the difference, or as the count when v2 finds the difference
\* negative).
C20_NoRollback ==
    /\ []((failTick > 0 /\ failTick = reports /\ rep = "idle") =>
             \A n \in DOMAIN registry :
                 registry[n].kind = "Counter" =>
                     /\ n \in DOMAIN lastCounter
                     /\ n \in DOMAIN observed
                     /\ lastCounter[n] = observed[n])
    /\ [][/\ WriteStep => lastCounter' = lastCounter
          /\ \A n \in DOMAIN registry :
                (failTick > 0 /\ reports = failTick + 1
                     /\ TranslatesCounter(n)) =>
                    LET pt == Pending'[Len(Pending')]
                        d == pt.fields["count"] - LastCount(observed, n)
                    IN  \/ pt.fields["diff"] = d
                        \/ (d < 0 /\ pt.fields["diff"] = pt.fields["count"])
         ]_vars

\* The write of the first report failed and the second report has made a
\* counter's point with count 2 and diff 1: the diff from the count, 1, read
\* in the first report.
C20_Witness ==
    /\ failTick = 1
    /\ reports = 2
    /\ \E i \in 1..Len(Pending) :
          /\ "diff" \in DOMAIN Pending[i].fields
          /\ Pending[i].fields["count"] = 2
          /\ Pending[i].fields["diff"] = 1

(***************************************************************************)
(* C21                                                                     *)
(***************************************************************************)
\* C21: for a counter whose readings were, from the first report on, never
\* negative and never lower than the reading before, the diffs of its points
\* up to the point just made add up to that point's count.
C21_DiffsSumToCount ==
    [][\A n \in DOMAIN registry :
          (TranslatesCounter(n) /\ sums'[n].mono) =>
              sums'[n].sum = Pending'[Len(Pending')].fields["count"]]_vars

\* In its second report a counter that read 1 in the first has read 2: its
\* diffs (1 and 1) add up to 2.
C21_Witness ==
    /\ reports = 2
    /\ \E n \in DOMAIN sums :
          /\ sums[n].mono
          /\ sums[n].sum = 2
          /\ observed[n] = 2
          /\ \E i \in 1..Len(Pending) :
                /\ "diff" \in DOMAIN Pending[i].fields
                /\ Pending[i].fields["diff"] = 1
                /\ Pending[i].fields["count"] = 2

(***************************************************************************)
(* C22                                                                     *)
(***************************************************************************)
\* The keys the key=value segments of a name give.
NameKeys(name) == {PairKey(Seg(name, k)) : k \in PairSegs(name)}

\* C22: r.tags is, after any sequence of calls of the callback, the map the
\* reporter was given; and a key on a point that the point's own name does
\* not give is a key of that map, with that map's value: no tag of the name
\* of another point is on it.
C22_FreshTags ==
    /\ qTags = pTags
    /\ \A i \in 1..Len(qOut) :
          \A k \in (DOMAIN qOut[i].tags) \ NameKeys(qOut[i].name) :
              /\ k \in DOMAIN pTags
              /\ qOut[i].tags[k] = pTags[k]

\* After the point of "c,a=b", whose name overrides the static tag a, the
\* point of "c" has been made, with the static value of a.
C22_Witness ==
    /\ Len(qOut) = 2
    /\ qOut[1].name = <<"c", ",", "a", "=", "b">>
    /\ qOut[1].tags[<<"a">>] = <<"b">>
    /\ qOut[2].name = <<"c">>
    /\ pTags = StaticTags
    /\ qOut[2].tags = StaticTags

====
